---- MODULE Spec2Model ----
(***************************************************************************)
(* The bitmap font backend of crossfont (src/bitmap/mod.rs): a registry of *)
(* atlas images decoded by load_font, queried by metrics and get_glyph.    *)
(* Pixel data is modelled byte for byte (3 bytes per pixel, row-major), so *)
(* every index computation of the source is carried out as written.        *)
(***************************************************************************)
EXTENDS Integers, Sequences, FiniteSets, TLC

\* ---------------------------------------------------------------- constants

FIRST_CHARACTER == 33

PIXEL_COMPONENTS == 3

\* Largest integer a f32 represents exactly step by step (2^24): `as f32`.
F32_EXACT == 16777216

\* i32::MAX: `as i32` wraps above it.
I32_MAX == 2147483647

\* ------------------------------------------------------------------- bounds

\* Atlas images of SpecDecode are at most MaxWidth x MaxHeight pixels.
MaxWidth == 3

MaxHeight == 3

\* At most MaxFonts successful loads in one behaviour.
MaxFonts == 2

\* Characters queried: FIRST_CHARACTER - CharsBelow .. FIRST_CHARACTER + CharsAbove.
CharsBelow == 1

CharsAbove == 2

VARIABLES
    fs,       \* the file system: descriptor name -> file content
    fonts,    \* BitmapRasterizer.fonts : FontKey -> BitmapFont
    keys,     \* BitmapRasterizer.keys  : FontDesc -> FontKey
    nextKey,  \* the process-wide FontKey counter
    issued,   \* history: the handles successful load_font calls returned
    last      \* the last call: its operation, arguments and result

vars == <<fs, fonts, keys, nextKey, issued, last>>

\* ------------------------------------------------------------------ colours

Green == <<0, 255, 0>>

Magenta == <<255, 0, 255>>

Red == <<255, 0, 0>>

Blue == <<0, 0, 255>>

\* Shares a component with red and with green, and is neither.
Yellow == <<255, 255, 0>>

Palette == {Green, Magenta, Red, Blue, Yellow}

\* Row 0 right of column 0 is only ever compared with green and with magenta.
RowPalette == {Green, Magenta, Yellow}

\* Column 0 below row 0 is only ever compared with red and with blue.
ColumnPalette == {Red, Blue, Yellow}

\* A glyph-body pixel, different at every position and never a marker colour.
Ink(x, y) == <<128, x, y>>

\* ------------------------------------------------------------------- images

\* An RgbImage: width, height and the packed bytes, pix[x, y] being its pixels.
MakeImage(W, H, pix) ==
    [width |-> W, height |-> H,
     data |-> [k \in 1..(W * H * PIXEL_COMPONENTS) |->
                 LET p == (k - 1) \div PIXEL_COMPONENTS
                     c == (k - 1) % PIXEL_COMPONENTS
                 IN  pix[p % W, p \div W][c + 1]]]

\* The pixel of img at column x, row y (a triple), for x, y inside the image.
PixelAt(img, x, y) ==
    LET i == (x + y * img.width) * PIXEL_COMPONENTS
    IN  <<img.data[i + 1], img.data[i + 2], img.data[i + 3]>>

\* An atlas whose pixel (0, 0) is `corner`, whose row 0 right of it is `row`,
\* whose column 0 below it is `col`, and whose other pixels are ink.
StripAtlas(W, H, corner, row, col) ==
    MakeImage(W, H, [x \in 0..(W - 1), y \in 0..(H - 1) |->
                       IF x = 0 /\ y = 0 THEN corner
                       ELSE IF y = 0 THEN row[x]
                       ELSE IF x = 0 THEN col[y]
                       ELSE Ink(x, y)])

\* A hand-made atlas: green at column greenCol of row 0, red and blue at the
\* given rows of column 0, ink elsewhere.
MarkedAtlas(W, H, greenCol, redRows, blueRows) ==
    MakeImage(W, H, [x \in 0..(W - 1), y \in 0..(H - 1) |->
                       IF y = 0 /\ x = greenCol THEN Green
                       ELSE IF x = 0 /\ y \in redRows THEN Red
                       ELSE IF x = 0 /\ y \in blueRows THEN Blue
                       ELSE Ink(x, y)])

\* The 40x20 atlas of the round-trip test: green at column 9, red at rows
\* 15-16, blue at rows 10-11.
ExampleAtlas == MarkedAtlas(40, 20, 9, 15..16, 10..11)

NoImage == [width |-> 0, height |-> 0, data |-> <<>>]

\* What image::io::Reader::open / decode make of a path.
MissingFile == [kind |-> "missing", img |-> NoImage]

GarbageFile == [kind |-> "garbage", img |-> NoImage]

ImageFile(img) == [kind |-> "image", img |-> img]

\* ------------------------------------------------------- the atlas decoder

\* The value of a scan that indexed past the end of the pixel data.
Panicked == -1

\* check_pixel_color reads data[i], data[i + 1], data[i + 2] (0-based, && stops
\* at the first mismatch); it panics when a byte it reads is out of range.
check_pixel_color_panics(data, atlas_width, x, y, r, g, b) ==
    LET i == (x + y * atlas_width) * PIXEL_COMPONENTS
    IN  \/ i >= Len(data)
        \/ /\ data[i + 1] = r
           /\ \/ i + 1 >= Len(data)
              \/ /\ data[i + 2] = g
                 /\ i + 2 >= Len(data)

check_pixel_color(data, atlas_width, x, y, r, g, b) ==
    LET i == (x + y * atlas_width) * PIXEL_COMPONENTS
    IN  data[i + 1] = r /\ data[i + 2] = g /\ data[i + 3] = b

\* ScanWidth as it would be with average_advance = x in place of x + 1.
RECURSIVE ScanWidthOffByOne(_, _, _)
ScanWidthOffByOne(data, atlas_width, x) ==
    IF x >= atlas_width THEN 0
    ELSE IF check_pixel_color_panics(data, atlas_width, x, 0, 0, 255, 0) THEN Panicked
    ELSE IF check_pixel_color(data, atlas_width, x, 0, 0, 255, 0) THEN x
    ELSE ScanWidthOffByOne(data, atlas_width, x + 1)

\* for x in 0..font_atlas_width: the first (0,255,0) pixel of row 0 sets
\* average_advance = x + 1 and ends the loop; 0 when the loop runs out.
RECURSIVE ScanWidth(_, _, _)
ScanWidth(data, atlas_width, x) ==
    IF x >= atlas_width THEN 0
    ELSE IF check_pixel_color_panics(data, atlas_width, x, 0, 0, 255, 0) THEN Panicked
    ELSE IF check_pixel_color(data, atlas_width, x, 0, 0, 255, 0) THEN x + 1
    ELSE ScanWidth(data, atlas_width, x + 1)

\* ScanPadding as it would be if it compared with (0,255,0).
RECURSIVE ScanPaddingGreen(_, _, _, _)
ScanPaddingGreen(data, atlas_width, x, padding_width) ==
    IF x >= atlas_width THEN padding_width
    ELSE IF check_pixel_color_panics(data, atlas_width, x, 0, 0, 255, 0) THEN Panicked
    ELSE IF ~check_pixel_color(data, atlas_width, x, 0, 0, 255, 0) THEN padding_width
    ELSE ScanPaddingGreen(data, atlas_width, x + 1, padding_width + 1)

\* for x in average_advance..font_atlas_width: counts pixels of row 0 equal to
\* (255,0,255) and ends at the first that is not.
RECURSIVE ScanPadding(_, _, _, _)
ScanPadding(data, atlas_width, x, padding_width) ==
    IF x >= atlas_width THEN padding_width
    ELSE IF check_pixel_color_panics(data, atlas_width, x, 0, 255, 0, 255) THEN Panicked
    ELSE IF ~check_pixel_color(data, atlas_width, x, 0, 255, 0, 255) THEN padding_width
    ELSE ScanPadding(data, atlas_width, x + 1, padding_width + 1)

\* ScanMarker as it would be if the loop ended at the first pixel of another
\* colour after the marker: the thickness of the first run only.
RECURSIVE ScanMarkerRun(_, _, _, _, _, _, _, _, _)
ScanMarkerRun(data, atlas_width, atlas_height, y, position, thickness, r, g, b) ==
    IF y >= atlas_height THEN <<position, thickness>>
    ELSE IF check_pixel_color_panics(data, atlas_width, 0, y, r, g, b)
         THEN <<Panicked, Panicked>>
    ELSE IF check_pixel_color(data, atlas_width, 0, y, r, g, b)
         THEN ScanMarkerRun(data, atlas_width, atlas_height, y + 1,
                            IF position = 0 THEN atlas_height - y ELSE position,
                            thickness + 1, r, g, b)
    ELSE IF position # 0 THEN <<position, thickness>>
    ELSE ScanMarkerRun(data, atlas_width, atlas_height, y + 1, position, thickness, r, g, b)

\* ScanMarker as it would be without the `if position == 0`: every marker
\* pixel sets the position, the last one wins.
RECURSIVE ScanMarkerLast(_, _, _, _, _, _, _, _, _)
ScanMarkerLast(data, atlas_width, atlas_height, y, position, thickness, r, g, b) ==
    IF y >= atlas_height THEN <<position, thickness>>
    ELSE IF check_pixel_color_panics(data, atlas_width, 0, y, r, g, b)
         THEN <<Panicked, Panicked>>
    ELSE IF check_pixel_color(data, atlas_width, 0, y, r, g, b)
         THEN ScanMarkerLast(data, atlas_width, atlas_height, y + 1,
                             atlas_height - y, thickness + 1, r, g, b)
    ELSE ScanMarkerLast(data, atlas_width, atlas_height, y + 1, position, thickness, r, g, b)

\* for y in 0..font_atlas_height over column 0: a pixel of colour (r,g,b) sets
\* the position to height - y while the position is still 0, and adds one
\* to the thickness.  Yields <<position, thickness>>.
RECURSIVE ScanMarker(_, _, _, _, _, _, _, _, _)
ScanMarker(data, atlas_width, atlas_height, y, position, thickness, r, g, b) ==
    IF y >= atlas_height THEN <<position, thickness>>
    ELSE IF check_pixel_color_panics(data, atlas_width, 0, y, r, g, b)
         THEN <<Panicked, Panicked>>
    ELSE IF check_pixel_color(data, atlas_width, 0, y, r, g, b)
         THEN ScanMarker(data, atlas_width, atlas_height, y + 1,
                         IF position = 0 THEN atlas_height - y ELSE position,
                         thickness + 1, r, g, b)
    ELSE ScanMarker(data, atlas_width, atlas_height, y + 1, position, thickness, r, g, b)

LoadOk(font) == [tag |-> "Ok", font |-> font]

LoadErr(err, msg) == [tag |-> "Err", err |-> err, msg |-> msg]

Panic == [tag |-> "Panic"]

\* load_font up to the registration: open, decode, the four scans and their checks.
DecodeFont(desc, file) ==
    IF file.kind = "missing" THEN LoadErr("FontNotFound", desc)
    ELSE IF file.kind = "garbage" THEN LoadErr("PlatformError", "Failed to decode font")
    ELSE
    LET font_img == file.img
        font_atlas_width == font_img.width
        font_atlas_height == font_img.height
        font_data == font_img.data
        average_advance == ScanWidth(font_data, font_atlas_width, 0)
    IN
    IF average_advance = Panicked THEN Panic
    ELSE IF average_advance = 0
         THEN LoadErr("PlatformError", "Can't determine font glyph width")
    ELSE
    LET padding_width == ScanPadding(font_data, font_atlas_width, average_advance, 0)
    IN
    IF padding_width = Panicked THEN Panic
    ELSE
    LET underline == ScanMarker(font_data, font_atlas_width, font_atlas_height,
                                0, 0, 0, 255, 0, 0)
    IN
    IF underline[1] = Panicked THEN Panic
    ELSE IF underline[1] = 0
         THEN LoadErr("PlatformError", "Can't determine font underline position")
    ELSE
    LET strikeout == ScanMarker(font_data, font_atlas_width, font_atlas_height,
                                0, 0, 0, 0, 0, 255)
    IN
    IF strikeout[1] = Panicked THEN Panic
    ELSE IF strikeout[1] = 0
         THEN LoadErr("PlatformError", "Can't determine font strikeout position")
    ELSE LoadOk([img |-> font_img,
                 atlas_width |-> font_atlas_width,
                 line_height |-> font_atlas_height,
                 padding_width |-> padding_width,
                 average_advance |-> average_advance,
                 underline_position |-> underline[1],
                 underline_thickness |-> underline[2],
                 strikeout_position |-> strikeout[1],
                 strikeout_thickness |-> strikeout[2]])

\* FontKey::next(): the counter's value, and the counter one higher.
FontKeyNext(counter) == [key |-> counter, counter |-> counter + 1]

\* HashMap::insert
MapInsert(map, k, v) == [x \in (DOMAIN map) \cup {k} |-> IF x = k THEN v ELSE map[x]]

\* A panic ends the process: nothing runs after it.
Running == last.res.tag # "Panic"

\* ------------------------------------------------------------- operations

\* Rasterize::new
EmptyMap == [x \in {} |-> 0]

\* load_font as it would be if it recorded the descriptor before the checks:
\* a failed load leaves an entry in `keys`.
LoadFontEager(desc) ==
    /\ Running
    /\ Cardinality(issued) < MaxFonts
    /\ LET out == DecodeFont(desc, fs[desc])
           next == FontKeyNext(nextKey)
       IN  /\ nextKey' = next.counter
           /\ keys' = MapInsert(keys, desc, next.key)
           /\ IF out.tag = "Ok"
              THEN /\ fonts' = MapInsert(fonts, next.key, out.font)
                   /\ issued' = issued \cup {next.key}
                   /\ last' = [op |-> "load_font", desc |-> desc,
                               res |-> [tag |-> "Ok", key |-> next.key]]
              ELSE /\ last' = [op |-> "load_font", desc |-> desc, res |-> out]
                   /\ UNCHANGED <<fonts, issued>>
    /\ UNCHANGED fs

\* load_font as it would be if it consulted `keys` first and returned the
\* handle of a descriptor already loaded.
LoadFontDedup(desc) ==
    /\ Running
    /\ Cardinality(issued) < MaxFonts
    /\ LET out == DecodeFont(desc, fs[desc])
           next == FontKeyNext(nextKey)
       IN  IF desc \in DOMAIN keys
           THEN /\ last' = [op |-> "load_font", desc |-> desc,
                            res |-> [tag |-> "Ok", key |-> keys[desc]]]
                /\ UNCHANGED <<fonts, keys, nextKey, issued>>
           ELSE IF out.tag = "Ok"
           THEN /\ nextKey' = next.counter
                /\ keys' = MapInsert(keys, desc, next.key)
                /\ fonts' = MapInsert(fonts, next.key, out.font)
                /\ issued' = issued \cup {next.key}
                /\ last' = [op |-> "load_font", desc |-> desc,
                            res |-> [tag |-> "Ok", key |-> next.key]]
           ELSE /\ last' = [op |-> "load_font", desc |-> desc, res |-> out]
                /\ UNCHANGED <<fonts, keys, nextKey, issued>>
    /\ UNCHANGED fs

\* load_font(desc): decode; register under a fresh key only when all checks passed.
LoadFont(desc) ==
    /\ Running
    /\ Cardinality(issued) < MaxFonts
    /\ LET out == DecodeFont(desc, fs[desc])
           next == FontKeyNext(nextKey)
       IN  IF out.tag = "Ok"
           THEN /\ nextKey' = next.counter
                /\ keys' = MapInsert(keys, desc, next.key)
                /\ fonts' = MapInsert(fonts, next.key, out.font)
                /\ issued' = issued \cup {next.key}
                /\ last' = [op |-> "load_font", desc |-> desc,
                            res |-> [tag |-> "Ok", key |-> next.key]]
           ELSE /\ last' = [op |-> "load_font", desc |-> desc, res |-> out]
                /\ UNCHANGED <<fonts, keys, nextKey, issued>>
    /\ UNCHANGED fs

\* usize as f64: exact for every value below 2^53, which every image dimension is.
AsF64(n) == n

\* The power of two by which f32 steps at magnitude n.
RECURSIVE F32Step(_, _)
F32Step(n, step) == IF n \div step < F32_EXACT THEN step ELSE F32Step(n, step * 2)

\* usize as f32: round to the nearest value with a 24-bit significand, ties to even.
AsF32(n) ==
    LET step == F32Step(n, 1)
        q == n \div step
        r == n % step
        up == \/ 2 * r > step
              \/ 2 * r = step /\ q % 2 = 1
    IN  IF n <= F32_EXACT THEN n ELSE (IF up THEN q + 1 ELSE q) * step

\* usize as i32 (of a value below 2^32): wraps above i32::MAX.
AsI32(n) == IF n <= I32_MAX THEN n ELSE n - I32_MAX - I32_MAX - 2

\* self.fonts.get(&font_key).ok_or(Error::UnknownFontKey)
get_loaded_font(fontsMap, font_key) ==
    IF font_key \in DOMAIN fontsMap
    THEN [tag |-> "Ok", font |-> fontsMap[font_key]]
    ELSE [tag |-> "Err", err |-> "UnknownFontKey"]

\* metrics as it would be with line_height taken from average_advance.
metricsWrongField(fontsMap, key) ==
    LET found == get_loaded_font(fontsMap, key)
    IN  IF found.tag # "Ok" THEN found
        ELSE LET loaded_font == found.font
             IN  [tag |-> "Ok",
                  metrics |-> [
                    descent |-> 0,
                    average_advance |-> AsF64(loaded_font.average_advance),
                    line_height |-> AsF64(loaded_font.average_advance),
                    underline_position |-> AsF32(loaded_font.underline_position),
                    underline_thickness |-> AsF32(loaded_font.underline_thickness),
                    strikeout_position |-> AsF32(loaded_font.strikeout_position),
                    strikeout_thickness |-> AsF32(loaded_font.strikeout_thickness)]]

\* metrics(key, _size)
metrics(fontsMap, key) ==
    LET found == get_loaded_font(fontsMap, key)
    IN  IF found.tag # "Ok" THEN found
        ELSE LET loaded_font == found.font
             IN  [tag |-> "Ok",
                  metrics |-> [
                    descent |-> 0,
                    average_advance |-> AsF64(loaded_font.average_advance),
                    line_height |-> AsF64(loaded_font.line_height),
                    underline_position |-> AsF32(loaded_font.underline_position),
                    underline_thickness |-> AsF32(loaded_font.underline_thickness),
                    strikeout_position |-> AsF32(loaded_font.strikeout_position),
                    strikeout_thickness |-> AsF32(loaded_font.strikeout_thickness)]]

\* XOffset as it would be without the + 1 that skips the metrics cell.
XOffsetNoMetricsCell(loaded_font, character_index) ==
    (loaded_font.average_advance + loaded_font.padding_width)
        * (character_index - FIRST_CHARACTER)

\* (average_advance + padding_width) * (character_index - FIRST_CHARACTER + 1)
XOffset(loaded_font, character_index) ==
    (loaded_font.average_advance + loaded_font.padding_width)
        * (character_index - FIRST_CHARACTER + 1)

\* CopyPixel as it would be if the index wrapped around the data instead of
\* panicking.
CopyPixelWrapping(loaded_font, x_offset, n) ==
    LET font_data == loaded_font.img.data
        y == n \div loaded_font.average_advance
        x == n % loaded_font.average_advance
        i == ((x + x_offset + y * loaded_font.atlas_width) * PIXEL_COMPONENTS)
                 % Len(font_data)
    IN  [tag |-> "Ok", reads |-> PIXEL_COMPONENTS,
         data |-> <<font_data[i + 1], font_data[i + 2], font_data[i + 3]>>]

\* One iteration of the two nested loops, iteration n being
\* y = n / average_advance, x = n % average_advance: three indexed reads of
\* font_data, each pushed to data.  An index at or past font_data's length
\* panics.  `reads` counts the bytes read.
CopyPixel(loaded_font, x_offset, n) ==
    LET font_data == loaded_font.img.data
        y == n \div loaded_font.average_advance
        x == n % loaded_font.average_advance
        i == (x + x_offset + y * loaded_font.atlas_width) * PIXEL_COMPONENTS
    IN  IF i >= Len(font_data) THEN [tag |-> "Panic", reads |-> 0]
        ELSE IF i + 1 >= Len(font_data) THEN [tag |-> "Panic", reads |-> 1]
        ELSE IF i + 2 >= Len(font_data) THEN [tag |-> "Panic", reads |-> 2]
        ELSE [tag |-> "Ok", reads |-> PIXEL_COMPONENTS,
              data |-> <<font_data[i + 1], font_data[i + 2], font_data[i + 3]>>]

\* Iterations lo .. hi - 1 of the loops, in order; a panic ends them.  (Split in
\* halves, so that the evaluation is no deeper than the logarithm of their number.)
RECURSIVE CopyPixels(_, _, _, _)
CopyPixels(loaded_font, x_offset, lo, hi) ==
    IF lo >= hi THEN [tag |-> "Ok", reads |-> 0, data |-> <<>>]
    ELSE IF hi = lo + 1 THEN CopyPixel(loaded_font, x_offset, lo)
    ELSE
    LET mid == (lo + hi) \div 2
        first == CopyPixels(loaded_font, x_offset, lo, mid)
    IN  IF first.tag = "Panic" THEN first
        ELSE LET rest == CopyPixels(loaded_font, x_offset, mid, hi)
             IN  IF rest.tag = "Panic"
                 THEN [tag |-> "Panic", reads |-> first.reads + rest.reads]
                 ELSE [tag |-> "Ok", reads |-> first.reads + rest.reads,
                       data |-> first.data \o rest.data]

\* The character check as it would be with <= 31 in place of < 33.
UnrepresentedOffByOne(character_index) == character_index < FIRST_CHARACTER - 1

\* The character check of rasterize_glyph: below FIRST_CHARACTER is refused.
Unrepresented(character_index) == character_index < FIRST_CHARACTER

\* rasterize_glyph(glyph), glyph = (font_key, character)
rasterize_glyph(fontsMap, font_key, character) ==
    LET character_index == character
    IN
    IF Unrepresented(character_index)
    THEN [tag |-> "Err", err |-> "UnknownFontKey", reads |-> 0]
    ELSE
    LET found == get_loaded_font(fontsMap, font_key)
    IN
    IF found.tag # "Ok" THEN [tag |-> "Err", err |-> found.err, reads |-> 0]
    ELSE
    LET loaded_font == found.font
        buffer == CopyPixels(loaded_font, XOffset(loaded_font, character_index), 0,
                             loaded_font.line_height * loaded_font.average_advance)
    IN
    IF buffer.tag = "Panic" THEN buffer
    ELSE [tag |-> "Ok",
          reads |-> buffer.reads,
          glyph |-> [character |-> character,
                     width |-> AsI32(loaded_font.average_advance),
                     height |-> AsI32(loaded_font.line_height),
                     top |-> AsI32(loaded_font.line_height),
                     left |-> 0,
                     advance |-> <<0, 0>>,
                     buffer |-> buffer.data]]

\* metrics(key, _size): read-only.
Metrics(key) ==
    /\ Running
    /\ last' = [op |-> "metrics", key |-> key, res |-> metrics(fonts, key)]
    /\ UNCHANGED <<fs, fonts, keys, nextKey, issued>>

\* get_glyph(glyph): rasterize_glyph's result passed on.
GetGlyph(key, character) ==
    /\ Running
    /\ last' = [op |-> "get_glyph", key |-> key, character |-> character,
                res |-> rasterize_glyph(fonts, key, character)]
    /\ UNCHANGED <<fs, fonts, keys, nextKey, issued>>

\* kerning(_left, _right) -> (0., 0.)
Kerning ==
    /\ Running
    /\ last' = [op |-> "kerning", res |-> [tag |-> "Ok", value |-> <<0, 0>>]]
    /\ UNCHANGED <<fs, fonts, keys, nextKey, issued>>

\* update_dpr(_device_pixel_ratio): no effect.
UpdateDpr ==
    /\ Running
    /\ last' = [op |-> "update_dpr", res |-> [tag |-> "Ok"]]
    /\ UNCHANGED <<fs, fonts, keys, nextKey, issued>>

\* ------------------------------------------------------------ environments

\* Handles a caller may query: those load_font can issue and one it never does.
Handles == 0..MaxFonts

Chars == (FIRST_CHARACTER - CharsBelow)..(FIRST_CHARACTER + CharsAbove)

\* A 4x3 atlas of two-pixel cells, and the same atlas without its blue, its red
\* and its green marker.
SmallAtlas == MarkedAtlas(4, 3, 1, {1}, {2})

NoStrikeoutAtlas == MarkedAtlas(4, 3, 1, {1}, {})

NoUnderlineAtlas == MarkedAtlas(4, 3, 1, {}, {2})

NoWidthAtlas == MarkedAtlas(4, 3, 4, {1}, {2})

RegFiles ==
    {MissingFile, GarbageFile, ImageFile(ExampleAtlas), ImageFile(SmallAtlas),
     ImageFile(NoStrikeoutAtlas), ImageFile(NoUnderlineAtlas), ImageFile(NoWidthAtlas)}

RegDescs == {"a.png", "b.png"}

DecodeDescs == {"font.png"}

\* Rasterize::new: both maps empty; no key issued yet.
InitRegistry ==
    /\ fonts = EmptyMap
    /\ keys = EmptyMap
    /\ nextKey = 0
    /\ issued = {}
    /\ last = [op |-> "new", res |-> [tag |-> "Ok"]]

Init ==
    /\ fs \in [RegDescs -> RegFiles]
    /\ InitRegistry

\* The file is missing, undecodable, or any atlas of at most MaxWidth x MaxHeight
\* pixels (a zero-width one too): pixel (0, 0), where the two marker strips
\* cross, is any colour of Palette, the rest of row 0 is drawn from RowPalette
\* and the rest of column 0 from ColumnPalette.
InitDecode ==
    /\ \/ \E file \in {MissingFile, GarbageFile} : fs = [d \in DecodeDescs |-> file]
       \/ \E W \in 0..MaxWidth, H \in 1..MaxHeight, corner \in Palette :
             \E row \in [1..(W - 1) -> RowPalette], col \in [1..(H - 1) -> ColumnPalette] :
                fs = [d \in DecodeDescs |-> ImageFile(StripAtlas(W, H, corner, row, col))]
    /\ InitRegistry

Next ==
    \/ \E desc \in DOMAIN fs : LoadFont(desc)
    \/ \E key \in Handles : Metrics(key)
    \/ \E key \in Handles, character \in Chars : GetGlyph(key, character)
    \/ Kerning
    \/ UpdateDpr

\* Two descriptors over a few hand-made files, the 40x20 example among them.
Spec == Init /\ [][Next]_vars

\* One descriptor over every atlas of the bounded sizes and palette.
SpecDecode == InitDecode /\ [][Next]_vars

\* ------------------------------------------------------------------ claims

Min(S) == CHOOSE m \in S : \A n \in S : m <= n

\* The columns of row 0, and the rows of column 0, holding a given colour.
ColsOf(img, colour) == {c \in 0..(img.width - 1) : PixelAt(img, c, 0) = colour}

RowsOf(img, colour) ==
    IF img.width = 0 THEN {}
    ELSE {r \in 0..(img.height - 1) : PixelAt(img, 0, r) = colour}

\* The number of consecutive pixels of `colour` in row 0 from column x0 on.
RowRun(img, x0, colour) ==
    CHOOSE n \in 0..(img.width - x0) :
        /\ \A j \in 0..(n - 1) : PixelAt(img, x0 + j, 0) = colour
        /\ n < img.width - x0 => PixelAt(img, x0 + n, 0) # colour

\* The number of consecutive pixels of `colour` in column 0 from row y0 on.
ColRun(img, y0, colour) ==
    CHOOSE n \in 0..(img.height - y0) :
        /\ \A j \in 0..(n - 1) : PixelAt(img, 0, y0 + j) = colour
        /\ n < img.height - y0 => PixelAt(img, 0, y0 + n) # colour

WidthMsg == "Can't determine font glyph width"

UnderlineMsg == "Can't determine font underline position"

StrikeoutMsg == "Can't determine font strikeout position"

LoadedImage == last.op = "load_font" /\ fs[last.desc].kind = "image"

LoadFailedWith(msg) ==
    last.res.tag = "Err" /\ last.res.err = "PlatformError" /\ last.res.msg = msg

C2_PaddingIsGreenRun ==
    \A k \in DOMAIN fonts :
        fonts[k].padding_width = RowRun(fonts[k].img, fonts[k].average_advance, Green)

\* C2 amended: cell_padding is the number of consecutive (255,0,255) pixels of
\* row 0 from column glyph_width on, ending before the first other pixel or
\* the end of the row; 0 when the pixel at column glyph_width is not (255,0,255).
C2_PaddingIsMagentaRun ==
    \A k \in DOMAIN fonts :
        LET f == fonts[k]
        IN  /\ f.padding_width = RowRun(f.img, f.average_advance, Magenta)
            /\ (f.average_advance < f.atlas_width
                  /\ PixelAt(f.img, f.average_advance, 0) # Magenta)
               => f.padding_width = 0

\* C2's case: a font whose padding run is one pixel, ended by a pixel of row 0.
C2_Witness ==
    \E k \in DOMAIN fonts :
        /\ fonts[k].padding_width = 1
        /\ fonts[k].average_advance + 1 < fonts[k].atlas_width

\* C3 as stated: the thicknesses are run lengths from the first red (blue) row;
\* marker pixels after a gap are not counted.
C3_ThicknessIsRun ==
    \A k \in DOMAIN fonts :
        LET f == fonts[k]
        IN  /\ f.underline_thickness = ColRun(f.img, Min(RowsOf(f.img, Red)), Red)
            /\ f.strikeout_thickness = ColRun(f.img, Min(RowsOf(f.img, Blue)), Blue)

\* C3 amended: underline_thickness is the number of all pure-red pixels of
\* column 0 and strikeout_thickness the number of all pure-blue ones, those
\* after a gap included.
C3_ThicknessIsCount ==
    \A k \in DOMAIN fonts :
        LET f == fonts[k]
        IN  /\ f.underline_thickness = Cardinality(RowsOf(f.img, Red))
            /\ f.strikeout_thickness = Cardinality(RowsOf(f.img, Blue))

\* C3's case: a font whose red pixels are not contiguous.
C3_Witness ==
    \E k \in DOMAIN fonts :
        LET f == fonts[k]
        IN  /\ Cardinality(RowsOf(f.img, Red)) = 2
            /\ ColRun(f.img, Min(RowsOf(f.img, Red)), Red) = 1

\* C4: with a width marker, underline_position (strikeout_position) is the
\* atlas height minus the row of the topmost pure-red (pure-blue) pixel of
\* column 0; no red fails with the underline error, red without blue with the
\* strikeout error.
C4_Positions ==
    /\ \A k \in DOMAIN fonts :
          LET f == fonts[k]
          IN  /\ RowsOf(f.img, Red) # {}
              /\ RowsOf(f.img, Blue) # {}
              /\ f.underline_position = f.img.height - Min(RowsOf(f.img, Red))
              /\ f.strikeout_position = f.img.height - Min(RowsOf(f.img, Blue))
    /\ (LoadedImage /\ ColsOf(fs[last.desc].img, Green) # {}) =>
          LET img == fs[last.desc].img
          IN  /\ RowsOf(img, Red) = {} => LoadFailedWith(UnderlineMsg)
              /\ (RowsOf(img, Red) # {} /\ RowsOf(img, Blue) = {})
                    => LoadFailedWith(StrikeoutMsg)
              /\ (RowsOf(img, Red) # {} /\ RowsOf(img, Blue) # {})
                    => last.res.tag = "Ok"

\* C4's case: a stored font with two red pixels in column 0.
C4_Witness ==
    /\ LoadedImage
    /\ last.res.tag = "Ok"
    /\ Cardinality(RowsOf(fs[last.desc].img, Red)) = 2
    /\ Min(RowsOf(fs[last.desc].img, Red)) = 0

\* C5, the stored fonts: every font of the registry has a glyph width and
\* both positions above zero.
StoredFontsValid ==
    \A k \in DOMAIN fonts :
        /\ fonts[k].average_advance > 0
        /\ fonts[k].underline_position > 0
        /\ fonts[k].strikeout_position > 0

\* C5, the failed load: a load_font that returns an error issues no handle and
\* leaves both maps as they were.
FailedLoadChangesNothing ==
    (last'.op = "load_font" /\ last'.res.tag = "Err")
        => /\ fonts' = fonts
           /\ keys' = keys
           /\ nextKey' = nextKey
           /\ issued' = issued

\* C5: a failed load_font (file not found, undecodable image, missing width,
\* underline or strikeout marker) is all-or-nothing, and so every stored font
\* has glyph_width, underline_position and strikeout_position above zero.
C5_AllOrNothing == [][FailedLoadChangesNothing]_vars /\ []StoredFontsValid

\* C5's case: a load that failed for a missing marker after another had succeeded.
C5_Witness ==
    /\ last.op = "load_font"
    /\ last.res.tag = "Err"
    /\ last.res.err = "PlatformError"
    /\ last.res.msg = StrikeoutMsg
    /\ fonts # EmptyMap
    /\ last.desc \notin DOMAIN keys

\* What the markers of an atlas say, read off its pixels.
MarkerMetrics(img) ==
    [descent |-> 0,
     average_advance |-> Min(ColsOf(img, Green)) + 1,
     line_height |-> img.height,
     underline_position |-> img.height - Min(RowsOf(img, Red)),
     underline_thickness |-> Cardinality(RowsOf(img, Red)),
     strikeout_position |-> img.height - Min(RowsOf(img, Blue)),
     strikeout_thickness |-> Cardinality(RowsOf(img, Blue))]

ExampleMetrics ==
    [descent |-> 0, average_advance |-> 10, line_height |-> 20,
     underline_position |-> 5, underline_thickness |-> 2,
     strikeout_position |-> 10, strikeout_thickness |-> 2]

\* C6: metrics(handle) is Ok exactly for a handle an earlier successful
\* load_font returned, and then reports descent 0, the glyph width, the atlas
\* height and the positions and thicknesses decoded at load time (10, 20, 5, 2,
\* 10, 2 for the 40x20 example); any other handle gets UnknownFontKey.
C6_Metrics ==
    last.op = "metrics" =>
        /\ last.res.tag = "Ok" <=> last.key \in issued
        /\ last.res.tag # "Ok" => (last.res.tag = "Err" /\ last.res.err = "UnknownFontKey")
        /\ last.res.tag = "Ok" =>
              /\ last.res.metrics = MarkerMetrics(fonts[last.key].img)
              /\ fonts[last.key].img = ExampleAtlas => last.res.metrics = ExampleMetrics

\* C6's case: metrics of the 40x20 example, loaded second.
C6_Witness ==
    /\ last.op = "metrics"
    /\ last.res.tag = "Ok"
    /\ last.key = 1
    /\ fonts[last.key].img = ExampleAtlas
    /\ fonts[0].img # ExampleAtlas

\* The pixel at column x, row y of a packed buffer of rows `width` pixels wide.
BufferPixel(buffer, width, x, y) ==
    LET i == (x + y * width) * PIXEL_COMPONENTS
    IN  <<buffer[i + 1], buffer[i + 2], buffer[i + 3]>>

\* The last call asked a known handle for a character of ordinal >= 33.
GlyphOfKnownFont ==
    /\ last.op = "get_glyph"
    /\ last.key \in issued
    /\ last.character >= 33

\* The column where the cell of the last call's character starts.
CellOffset ==
    (last.character - 33 + 1)
        * (fonts[last.key].average_advance + fonts[last.key].padding_width)

CellInsideAtlas == CellOffset + fonts[last.key].average_advance <= fonts[last.key].img.width

C8_Refused ==
    (last.op = "get_glyph" /\ (last.character < 33 \/ last.key \notin issued)) =>
        /\ last.res.tag = "Err"
        /\ last.res.err = "UnknownFontKey"
        /\ last.res.reads = 0

\* C8's case: ordinal 32 asked of a known handle.
C8_Witness ==
    /\ last.op = "get_glyph"
    /\ last.character = 32
    /\ last.key \in issued
    /\ last.res.tag = "Err"

\* C9, one step: a load_font that returns Ok returns a handle never issued
\* before, adds exactly that entry to the fonts, decoded from the file as it
\* is, keeps every earlier entry, and records the handle under the descriptor.
SuccessfulLoadIsFresh ==
    (last'.op = "load_font" /\ last'.res.tag = "Ok" /\ last' # last) =>
        LET key == last'.res.key
        IN  /\ key \notin issued
            /\ key \notin DOMAIN fonts
            /\ issued' = issued \cup {key}
            /\ DOMAIN fonts' = (DOMAIN fonts) \cup {key}
            /\ Cardinality(DOMAIN fonts') = Cardinality(DOMAIN fonts) + 1
            /\ fonts'[key].img = fs[last'.desc].img
            /\ \A k \in DOMAIN fonts : fonts'[k] = fonts[k]
            /\ DOMAIN keys' = (DOMAIN keys) \cup {last'.desc}
            /\ keys'[last'.desc] = key
            /\ \A d \in (DOMAIN keys) \ {last'.desc} : keys'[d] = keys[d]

\* C9: every successful load_font, of a repeated descriptor too, decodes again
\* and returns a new handle; the fonts grow by one entry, earlier handles keep
\* their records, and the descriptor maps to the newest handle.
C9_FreshHandle == [][SuccessfulLoadIsFresh]_vars

\* C9's case: the same descriptor loaded twice, both handles resolving.
C9_Witness ==
    /\ last.op = "load_font"
    /\ last.res.tag = "Ok"
    /\ DOMAIN keys = {last.desc}
    /\ keys[last.desc] = 1
    /\ DOMAIN fonts = {0, 1}
    /\ fonts[0] = fonts[1]

\* C10: for a known handle and an ordinal >= 33, get_glyph returns a glyph
\* exactly when offset + glyph_width <= atlas_width and panics on an index out
\* of range otherwise; it returns no buffer of a cell that passes the right
\* edge, and always panics when glyph_width = atlas_width.
C10_InsideOrPanic ==
    GlyphOfKnownFont =>
        /\ last.res.tag = "Ok" <=> CellInsideAtlas
        /\ last.res.tag # "Ok" => last.res.tag = "Panic"
        /\ fonts[last.key].average_advance = fonts[last.key].img.width
              => last.res.tag = "Panic"

\* C10's case: a cell that starts inside the atlas and passes its right edge,
\* in an atlas of several rows: bytes of the next row were read before the panic.
C10_Witness ==
    /\ GlyphOfKnownFont
    /\ CellOffset < fonts[last.key].img.width
    /\ ~CellInsideAtlas
    /\ fonts[last.key].img.height >= 2
    /\ last.res.tag = "Panic"
    /\ last.res.reads > 3 * fonts[last.key].average_advance

====
